---- MODULE Spec2Model ----
(***************************************************************************)
(* Codebeamer CBQL MCP server: the CBQL validator (utils/cbql_validator),  *)
(* the HTTP client (utils/codebeamer_client) and the tools of main.py that *)
(* page through a query or surface a rate limit.                           *)
(*                                                                         *)
(* Text is modelled as a sequence of one-character strings, so that        *)
(* upper(), strip(), substring search, the scope regular expression,       *)
(* int() and f-string formatting are computed character by character.      *)
(***************************************************************************)
EXTENDS Integers, Sequences, FiniteSets, TLC

VARIABLES
    op,          \* the tool being called
    cbql,        \* query_items: the cbql argument (raw text)
    page_size,   \* query_items: the page_size argument
    pc,          \* position of the tool coroutine
    page,        \* query_items: local page
    all_items,   \* query_items: local all_items
    trace,       \* everything the call did to the sink and the client, in order
    outcome,     \* what the tool call returned or raised
    vraw,        \* validate_cbql: the argument
    vres         \* validate_cbql: what the call returned or raised

vars == <<op, cbql, page_size, pc, page, all_items, trace, outcome, vraw, vres>>

(***************************************************************************)
(* Bounds of the model.                                                    *)
(***************************************************************************)
MaxFrags == 3        \* fragments per validator input
MaxPages == 3        \* pages requested before the model stops looking
MaxPageLen == 2      \* items in one page response
MaxPageSize == 2     \* largest page_size argument
MaxHeaderLen == 2    \* characters in a Retry-After header value

(***************************************************************************)
(* Characters.                                                             *)
(***************************************************************************)
LowerCase == <<"a","b","c","d","e","f","g","h","i","j","k","l","m",
               "n","o","p","q","r","s","t","u","v","w","x","y","z">>
UpperCase == <<"A","B","C","D","E","F","G","H","I","J","K","L","M",
               "N","O","P","Q","R","S","T","U","V","W","X","Y","Z">>
Digits == <<"0","1","2","3","4","5","6","7","8","9">>

Range(tbl) == { tbl[i] : i \in 1..Len(tbl) }
IndexIn(tbl, c) == CHOOSE i \in 1..Len(tbl) : tbl[i] = c

\* str.upper() on one character
UpperChar(c) == IF c \in Range(LowerCase) THEN UpperCase[IndexIn(LowerCase, c)] ELSE c
\* case folding of one character, as re.IGNORECASE compares
LowerChar(c) == IF c \in Range(UpperCase) THEN LowerCase[IndexIn(UpperCase, c)] ELSE c

\* \s
IsSpace(c) == c \in {" ", "\t", "\n", "\r"}
\* \w
WordChars == Range(LowerCase) \cup Range(UpperCase) \cup Range(Digits) \cup {"_"}
IsWordChar(c) == c \in WordChars

\* the text left as it is
UpperForgotten(s) == s

\* str.upper()
Upper(s) == [i \in 1..Len(s) |-> UpperChar(s[i])]

\* number of leading / trailing whitespace characters
RECURSIVE LeadingSpaces(_)
LeadingSpaces(s) == IF s # <<>> /\ IsSpace(Head(s)) THEN 1 + LeadingSpaces(Tail(s)) ELSE 0
RECURSIVE TrailingSpaces(_)
TrailingSpaces(s) == IF s # <<>> /\ IsSpace(s[Len(s)])
                     THEN 1 + TrailingSpaces(SubSeq(s, 1, Len(s) - 1)) ELSE 0

\* str.lstrip(): trailing whitespace is kept
StripLeftOnly(s) == IF LeadingSpaces(s) = Len(s) THEN <<>>
                    ELSE SubSeq(s, 1 + LeadingSpaces(s), Len(s))

\* str.strip()
Strip(s) == IF LeadingSpaces(s) = Len(s) THEN <<>>
            ELSE SubSeq(s, 1 + LeadingSpaces(s), Len(s) - TrailingSpaces(s))

\* `w in s` : w occurs in s as a substring
StartsWithAt(s, i, w) == /\ i + Len(w) - 1 <= Len(s)
                         /\ \A j \in 1..Len(w) : s[i + j - 1] = w[j]
Contains(s, w) == \E i \in 1..(Len(s) + 1) : StartsWithAt(s, i, w)

(***************************************************************************)
(* utils/cbql_validator.py                                                 *)
(***************************************************************************)
KW_SELECT == <<"S","E","L","E","C","T">>
KW_UPDATE == <<"U","P","D","A","T","E">>
KW_DELETE == <<"D","E","L","E","T","E">>
KW_INSERT == <<"I","N","S","E","R","T">>
KW_JOIN == <<"J","O","I","N">>
FORBIDDEN_KEYWORDS == <<KW_SELECT, KW_UPDATE, KW_DELETE, KW_INSERT, KW_JOIN>>

W_tracker == <<"t","r","a","c","k","e","r">>
W_project == <<"p","r","o","j","e","c","t">>
W_IN == <<"I","N">>

\* a literal of the pattern matched at position i under re.IGNORECASE
IMatchAt(s, i, w) == /\ i + Len(w) - 1 <= Len(s)
                     /\ \A j \in 1..Len(w) : LowerChar(s[i + j - 1]) = LowerChar(w[j])

\* \b at position i, before a word character
WordBoundaryBefore(s, i) == i = 1 \/ ~IsWordChar(s[i - 1])

\* \s{n} at position i
SpacesAt(s, i, n) == /\ i + n - 1 <= Len(s)
                     /\ \A j \in 0..(n - 1) : IsSpace(s[i + j])

\* \s*=  at position i
SpacesThenEq(s, i) == \E n \in 0..Len(s) : SpacesAt(s, i, n) /\ StartsWithAt(s, i + n, <<"=">>)
\* \s+IN at position i
SpacesThenIN(s, i) == \E n \in 1..Len(s) : SpacesAt(s, i, n) /\ IMatchAt(s, i + n, W_IN)

\* (tracker\s*=|tracker\s+IN|project\s*=) at position i
ScopeAlternativesAt(s, i) ==
    \/ IMatchAt(s, i, W_tracker) /\ SpacesThenEq(s, i + Len(W_tracker))
    \/ IMatchAt(s, i, W_tracker) /\ SpacesThenIN(s, i + Len(W_tracker))
    \/ IMatchAt(s, i, W_project) /\ SpacesThenEq(s, i + Len(W_project))

\* SCOPE_PATTERN.search(s)
SCOPE_PATTERN(s) == \E i \in 1..Len(s) : WordBoundaryBefore(s, i) /\ ScopeAlternativesAt(s, i)

\* the first keyword of FORBIDDEN_KEYWORDS found in upper, 0 when none is
FirstForbidden(upper) ==
    IF \E k \in 1..Len(FORBIDDEN_KEYWORDS) : Contains(upper, FORBIDDEN_KEYWORDS[k])
    THEN CHOOSE k \in 1..Len(FORBIDDEN_KEYWORDS) :
            /\ Contains(upper, FORBIDDEN_KEYWORDS[k])
            /\ \A m \in 1..(k - 1) : ~Contains(upper, FORBIDDEN_KEYWORDS[m])
    ELSE 0

Returned(v) == [kind |-> "return", value |-> v]
Raised(e) == [kind |-> "raise", exc |-> e]

\* ValueError(message): the text of the message with {kw} where the f-string
\* interpolates, and the interpolated keyword (<<>> when there is none)
ValueError(text, kw) == [type |-> "ValueError", msg |-> text, kw |-> kw]

\* the rules with the statement separator tested before the scope
validate_cbql_SeparatorFirst(s) ==
    IF s = <<>> \/ Strip(s) = <<>>
    THEN Raised(ValueError("CBQL cannot be empty", <<>>))
    ELSE IF FirstForbidden(Upper(s)) # 0
    THEN Raised(ValueError("Invalid CBQL: '{kw}' is not supported. CBQL is not SQL.",
                           FORBIDDEN_KEYWORDS[FirstForbidden(Upper(s))]))
    ELSE IF Contains(s, <<";">>)
    THEN Raised(ValueError("Multiple CBQL statements are not allowed.", <<>>))
    ELSE IF ~SCOPE_PATTERN(s)
    THEN Raised(ValueError("Invalid CBQL: tracker or project scope is required.", <<>>))
    ELSE Returned(Strip(s))

validate_cbql(s) ==
    IF s = <<>> \/ Strip(s) = <<>>
    THEN Raised(ValueError("CBQL cannot be empty", <<>>))
    ELSE IF FirstForbidden(Upper(s)) # 0
    THEN Raised(ValueError("Invalid CBQL: '{kw}' is not supported. CBQL is not SQL.",
                           FORBIDDEN_KEYWORDS[FirstForbidden(Upper(s))]))
    ELSE IF ~SCOPE_PATTERN(s)
    THEN Raised(ValueError("Invalid CBQL: tracker or project scope is required.", <<>>))
    ELSE IF Contains(s, <<";">>)
    THEN Raised(ValueError("Multiple CBQL statements are not allowed.", <<>>))
    ELSE Returned(Strip(s))

(***************************************************************************)
(* Inputs of validate_cbql: up to MaxFrags fragments in a row, with or     *)
(* without whitespace around them.                                         *)
(***************************************************************************)
Fragments == << W_tracker,
                <<"P","r","o","j","e","c","t">>,
                <<"=">>,
                <<" ">>,
                <<"i","n">>,
                <<";">>,
                <<"S","e","l","e","c","t">>,
                <<"d","e","l","e","t","e">> >>
Pads == { <<>>, <<" ", "\t">> }

RECURSIVE Flatten(_)
Flatten(fs) == IF fs = <<>> THEN <<>> ELSE Fragments[Head(fs)] \o Flatten(Tail(fs))

FragmentSeqs == UNION { [1..n -> 1..Len(Fragments)] : n \in 0..MaxFrags }
\* two inputs tried besides: project = 'X'; project = 'Y' and intracker=;
ExampleInputs ==
    { W_project \o <<" ", "=", " ", "'", "X", "'", ";", " ">>
         \o W_project \o <<" ", "=", " ", "'", "Y", "'">>,
      <<"i","n">> \o W_tracker \o <<"=", ";">> }

ValidatorInputs == { l \o Flatten(fs) \o t : l \in Pads, fs \in FragmentSeqs, t \in Pads }
                   \cup ExampleInputs

NotCalled == [kind |-> "none"]

(***************************************************************************)
(* utils/codebeamer_client.py                                              *)
(***************************************************************************)
\* the value of a run of decimal digits
RECURSIVE DigitsValue(_)
DigitsValue(s) == IF s = <<>> THEN 0
                  ELSE 10 * DigitsValue(SubSeq(s, 1, Len(s) - 1)) + (IndexIn(Digits, s[Len(s)]) - 1)

AllDigits(s) == s # <<>> /\ \A i \in 1..Len(s) : s[i] \in Range(Digits)

\* int(text): surrounding whitespace and one sign are accepted
PyInt(text) ==
    LET t == Strip(text)
        signed == t # <<>> /\ Head(t) \in {"-", "+"}
        body == IF signed THEN Tail(t) ELSE t
    IN  IF AllDigits(body)
        THEN [ok |-> TRUE, value |-> IF signed /\ Head(t) = "-" THEN 0 - DigitsValue(body)
                                     ELSE DigitsValue(body)]
        ELSE [ok |-> FALSE, value |-> 0]

\* utils/errors.py
RateLimited(retry) == [type |-> "RateLimited", retry_after |-> retry]

Absent == [present |-> FALSE, text |-> <<>>]
Header(text) == [present |-> TRUE, text |-> text]

DefaultRetryAfter == 30

\* CodebeamerClient.request, after the response has arrived
ClientRequest(resp) ==
    IF resp.status = 429
    THEN IF ~resp.retry_after.present
         THEN Raised(RateLimited(DefaultRetryAfter))
         ELSE IF PyInt(resp.retry_after.text).ok
         THEN Raised(RateLimited(PyInt(resp.retry_after.text).value))
         ELSE Raised(ValueError("invalid literal for int()", <<>>))
    ELSE IF resp.status < 200 \/ resp.status > 299
    THEN Raised([type |-> "HTTPStatusError", status |-> resp.status])
    ELSE IF ~resp.decodable
    THEN Raised([type |-> "JSONDecodeError"])
    ELSE Returned(resp.body)

(***************************************************************************)
(* Responses of the remote service.                                        *)
(***************************************************************************)
Items == {"a", "b"}
\* item lists of a page: up to MaxPageLen items, neighbours differing
PageLists == { l \in UNION { [1..n -> Items] : n \in 0..MaxPageLen } :
                 \A i \in 1..(Len(l) - 1) : l[i] # l[i + 1] }
\* a decoded body: a mapping that may or may not have an "items" entry
Bodies == { [has_items |-> TRUE, items |-> l] : l \in PageLists }
          \cup { [has_items |-> FALSE, items |-> <<>>] }

HeaderChars == {"0", "3", "-", "x"}
HeaderTexts == UNION { [1..n -> HeaderChars] : n \in 0..MaxHeaderLen }
RetryAfterHeaders == {Absent} \cup { Header(t) : t \in HeaderTexts }

HttpResponse(st, ra, dec, b) == [status |-> st, retry_after |-> ra, decodable |-> dec, body |-> b]
EmptyBody == [has_items |-> FALSE, items |-> <<>>]

\* the Retry-After headers tried on a page of a query
QueryRetryAfterHeaders == { Absent, Header(<<"3">>), Header(<<"x">>) }

QueryResponses ==
    { HttpResponse(200, Absent, TRUE, b) : b \in Bodies }
    \cup { HttpResponse(200, Absent, FALSE, EmptyBody) }
    \cup { HttpResponse(429, h, TRUE, EmptyBody) : h \in QueryRetryAfterHeaders }
    \cup { HttpResponse(500, Absent, TRUE, EmptyBody) }

PassthroughResponses ==
    { HttpResponse(200, Absent, d, EmptyBody) : d \in BOOLEAN }
    \cup { HttpResponse(429, h, TRUE, EmptyBody) : h \in RetryAfterHeaders }
    \cup { HttpResponse(500, Absent, TRUE, EmptyBody) }

(***************************************************************************)
(* main.py                                                                 *)
(***************************************************************************)
\* str(n), as an f-string formats an int
RECURSIVE IntToStr(_)
IntToStr(n) == IF n < 0 THEN <<"-">> \o IntToStr(0 - n)
               ELSE IF n < 10 THEN <<Digits[n + 1]>>
               ELSE IntToStr(n \div 10) \o <<Digits[(n % 10) + 1]>>

S_RATE_LIMITED == <<"R","A","T","E","_","L","I","M","I","T","E","D",":">>

RuntimeError(text) == [type |-> "RuntimeError", msg |-> text]

\* f"RATE_LIMITED: {e.retry_after}"  (list_projects, query_items)
RateLimitedMessageSpaced(e) == S_RATE_LIMITED \o <<" ">> \o IntToStr(e.retry_after)
\* f"RATE_LIMITED:{e.retry_after}"   (get_project_details)
RateLimitedMessagePlain(e) == S_RATE_LIMITED \o IntToStr(e.retry_after)

\* the except clause of each tool that has one
RateLimitedMessage(tool, e) ==
    IF tool = "get_project_details" THEN RateLimitedMessagePlain(e)
    ELSE RateLimitedMessageSpaced(e)

\* page_size: Optional[int]
PyNone == [py |-> "None", v |-> 0]
PyNum(n) == [py |-> "int", v |-> n]
PageSizes == {PyNone} \cup { PyNum(n) : n \in 0..MaxPageSize }

\* the cbql arguments tried in a query_items call
QueryInputs == { Fragments[8], <<" ">> \o W_tracker \o <<"=">> \o <<" ">> }

Tools == {"query_items", "list_projects", "get_project_details"}

NoOutcome == [kind |-> "none"]

StreamError == [type |-> "StreamError"]
TypeError == [type |-> "TypeError"]

StartEvent == [t |-> "emit", event |-> "START"]
\* PROGRESS carrying the page number the loop moves to next
ProgressEventNextPage(p, n) ==
    [t |-> "emit", event |-> "PROGRESS", page |-> p + 1, itemsFetched |-> n]
ProgressEvent(p, n) == [t |-> "emit", event |-> "PROGRESS", page |-> p, itemsFetched |-> n]
RequestEntry(q, p, ps) == [t |-> "request", queryString |-> q, page |-> p, pageSize |-> ps]
ResponseEntry(p, resp, r) == [t |-> "response", page |-> p, http |-> resp, result |-> r]

\* result.get("items", [])
GetItems(body) == IF body.has_items THEN body.items ELSE <<>>

\* the new page put in front of the earlier ones
ExtendInFront(acc, items) == items \o acc

\* all_items.extend(items)
Extend(acc, items) == acc \o items

\* {"totalCount": len(all_items), "items": all_items}
QueryResult(acc) == [totalCount |-> Len(acc), items |-> acc]

\* the rate limit swallowed and an empty result returned in its place
ExceptRateLimitedReturnsEmpty(tool, e) == Returned([totalCount |-> 0, items |-> <<>>])

\* except RateLimited as e: raise RuntimeError(...)
ExceptRateLimited(tool, e) == Raised(RuntimeError(RateLimitedMessage(tool, e)))

\* the comparison turned round: len(items) > page_size
GreaterThan(n, ps) == IF ps.py = "None" THEN Raised([type |-> "TypeError"]) ELSE Returned(n > ps.v)

\* len(items) < page_size ; comparing with None raises TypeError
LessThan(n, ps) == IF ps.py = "None" THEN Raised(TypeError) ELSE Returned(n < ps.v)

Init ==
    /\ op \in Tools
    /\ cbql \in (IF op = "query_items" THEN QueryInputs ELSE {<<>>})
    /\ page_size \in (IF op = "query_items" THEN PageSizes ELSE {PyNone})
    /\ pc = "called"
    /\ page = 0
    /\ all_items = <<>>
    /\ trace = <<>>
    /\ outcome = NoOutcome
    /\ vraw = <<>>
    /\ vres = NotCalled

\* query_items, up to the first await: page = 1, all_items = [], ctx.stream(START)
QueryItemsCall ==
    /\ pc = "called" /\ op = "query_items"
    /\ page' = 1
    /\ all_items' = <<>>
    /\ trace' = Append(trace, StartEvent)
    /\ pc' = "stream_start"
    /\ UNCHANGED <<op, cbql, page_size, outcome, vraw, vres>>

\* await ctx.stream(START) completes, or raises
StreamStartDone ==
    /\ pc = "stream_start"
    /\ \E ok \in BOOLEAN :
         IF ok THEN pc' = "loop" /\ outcome' = outcome
         ELSE pc' = "done" /\ outcome' = Raised(StreamError)
    /\ UNCHANGED <<op, cbql, page_size, page, all_items, trace, vraw, vres>>

\* self.client.request(POST /v3/items/query, json={queryString, page, pageSize})
QueryItemsRequest ==
    /\ pc = "loop"
    /\ page <= MaxPages
    /\ trace' = Append(trace, RequestEntry(cbql, page, page_size))
    /\ pc' = "awaiting"
    /\ UNCHANGED <<op, cbql, page_size, page, all_items, outcome, vraw, vres>>

\* the failed request tried again: the call goes back into the loop
ClientErrorRetried == "loop"

\* an exception of self.client.request leaves the while loop and the call
ClientErrorLeaves == "done"

\* the request completes: items are appended and PROGRESS is pushed, or the
\* exception leaves the loop (RateLimited through the except clause)
QueryItemsResponse ==
    /\ pc = "awaiting" /\ op = "query_items"
    /\ \E resp \in QueryResponses :
         LET r == ClientRequest(resp) IN
         IF r.kind = "return"
         THEN /\ all_items' = Extend(all_items, GetItems(r.value))
              /\ trace' = trace \o << ResponseEntry(page, resp, r),
                                      ProgressEvent(page, Len(GetItems(r.value))) >>
              /\ pc' = "stream_progress"
              /\ outcome' = outcome
         ELSE /\ all_items' = all_items
              /\ trace' = Append(trace, ResponseEntry(page, resp, r))
              /\ pc' = ClientErrorLeaves
              /\ outcome' = IF r.exc.type = "RateLimited"
                            THEN ExceptRateLimited(op, r.exc)
                            ELSE r
    /\ UNCHANGED <<op, cbql, page_size, page, vraw, vres>>

\* items of the page just fetched (the local `items`)
LastItems == GetItems(trace[Len(trace) - 1].result.value)

\* await ctx.stream(PROGRESS) completes or raises; then the test of the loop
StreamProgressDone ==
    /\ pc = "stream_progress"
    /\ \E ok \in BOOLEAN :
         IF ~ok
         THEN pc' = "done" /\ outcome' = Raised(StreamError) /\ page' = page
         ELSE LET c == LessThan(Len(LastItems), page_size) IN
              IF c.kind = "raise"
              THEN pc' = "done" /\ outcome' = c /\ page' = page
              ELSE IF c.value
              THEN /\ pc' = "done" /\ page' = page
                   /\ outcome' = Returned(QueryResult(all_items))
              ELSE pc' = "loop" /\ outcome' = outcome /\ page' = page + 1
    /\ UNCHANGED <<op, cbql, page_size, all_items, trace, vraw, vres>>

\* list_projects / get_project_details: the single request
PassthroughCall ==
    /\ pc = "called" /\ op # "query_items"
    /\ trace' = Append(trace, [t |-> "request", tool |-> op])
    /\ pc' = "awaiting"
    /\ UNCHANGED <<op, cbql, page_size, page, all_items, outcome, vraw, vres>>

PassthroughResponse ==
    /\ pc = "awaiting" /\ op # "query_items"
    /\ \E resp \in PassthroughResponses :
         LET r == ClientRequest(resp) IN
         /\ trace' = Append(trace, ResponseEntry(0, resp, r))
         /\ outcome' = IF r.kind = "raise" /\ r.exc.type = "RateLimited"
                       THEN ExceptRateLimited(op, r.exc)
                       ELSE r
    /\ pc' = "done"
    /\ UNCHANGED <<op, cbql, page_size, page, all_items, vraw, vres>>

Next ==
    \/ QueryItemsCall
    \/ StreamStartDone
    \/ QueryItemsRequest
    \/ QueryItemsResponse
    \/ StreamProgressDone
    \/ PassthroughCall
    \/ PassthroughResponse

Spec == Init /\ [][Next]_vars

\* every await of a running call completes
FairSpec == Spec /\ WF_vars(Next)

(***************************************************************************)
(* validate_cbql on its own: one call on one input.                        *)
(***************************************************************************)
ValidatorInit ==
    /\ vraw \in ValidatorInputs
    /\ vres = NotCalled
    /\ op = "validate_cbql"
    /\ cbql = <<>>
    /\ page_size = PyNone
    /\ pc = "called"
    /\ page = 0
    /\ all_items = <<>>
    /\ trace = <<>>
    /\ outcome = NoOutcome

Validate ==
    /\ pc = "called" /\ op = "validate_cbql"
    /\ vres' = validate_cbql(vraw)
    /\ pc' = "done"
    /\ UNCHANGED <<op, cbql, page_size, page, all_items, trace, outcome, vraw>>

ValidatorNext == Validate

ValidatorSpec == ValidatorInit /\ [][ValidatorNext]_vars

(***************************************************************************)
(* What a call did, read off the trace.                                    *)
(***************************************************************************)
IsRequest(e) == e.t = "request"
IsResponse(e) == e.t = "response"
IsEmit(e) == e.t = "emit"
IsPage(e) == e.t = "response" /\ e.result.kind = "return"
IsGatewayFailure(e) == e.t = "response" /\ e.result.kind = "raise"
IsRateLimitedFailure(e) == IsGatewayFailure(e) /\ e.result.exc.type = "RateLimited"

Requests == SelectSeq(trace, IsRequest)
Emits == SelectSeq(trace, IsEmit)
Pages == SelectSeq(trace, IsPage)
GatewayFailed == \E i \in 1..Len(trace) : IsGatewayFailure(trace[i])

PageItems(e) == GetItems(e.result.value)
PageCount(e) == Len(PageItems(e))
\* the page is strictly shorter than the page size of the run
ShortPage(e) == page_size.py = "int" /\ PageCount(e) < page_size.v

RECURSIVE ConcatPages(_)
ConcatPages(ps) == IF ps = <<>> THEN <<>> ELSE PageItems(Head(ps)) \o ConcatPages(Tail(ps))
RECURSIVE SumCounts(_)
SumCounts(ps) == IF ps = <<>> THEN 0 ELSE PageCount(Head(ps)) + SumCounts(Tail(ps))

IsPrefix(w, s) == Len(w) <= Len(s) /\ SubSeq(s, 1, Len(w)) = w

(***************************************************************************)
(* C1. Every request query_items sends carries the output of a successful  *)
(* validate call on the caller's raw query: no request is sent for a raw   *)
(* query that validate rejects.                                            *)
(***************************************************************************)
C1_OnlyValidatedQueriesSent ==
    op = "query_items" =>
        \A i \in 1..Len(trace) :
            IsRequest(trace[i]) =>
                /\ validate_cbql(cbql).kind = "return"
                /\ trace[i].queryString = validate_cbql(cbql).value

(***************************************************************************)
(* C2. With no Gateway failure, the requests are for pages 1, 2, ..., one  *)
(* at a time and each once; no request follows the first short page, and   *)
(* the run does not stop before a short page has been fetched.             *)
(***************************************************************************)
C2_PagesInOrderUntilShort ==
    (op = "query_items" /\ ~GatewayFailed) =>
        /\ \A i \in 1..Len(Requests) : Requests[i].page = i
        /\ Len(Requests) - Len(Pages) \in {0, 1}
        /\ \A i \in 1..Len(Pages) : ShortPage(Pages[i]) => i = Len(Requests)
        /\ pc = "done" => /\ Len(Pages) >= 1
                          /\ Len(Pages) = Len(Requests)
                          /\ ShortPage(Pages[Len(Pages)])

(***************************************************************************)
(* C3. A successful run returns the concatenation of the fetched pages in  *)
(* page order and in-page order, and totalCount is the sum of the page     *)
(* counts and the length of the returned sequence.                         *)
(***************************************************************************)
C3_ResultIsConcatenation ==
    (op = "query_items" /\ outcome.kind = "return") =>
        /\ outcome.value.items = ConcatPages(Pages)
        /\ outcome.value.totalCount = SumCounts(Pages)
        /\ outcome.value.totalCount = Len(outcome.value.items)
        /\ \A i \in 1..Len(Pages) : Pages[i].page = i

\* two pages returned, with an item repeated across pages and items out of
\* alphabetical order
C3_Witness ==
    /\ op = "query_items" /\ outcome.kind = "return"
    /\ Len(Pages) = 2
    /\ PageItems(Pages[1]) = <<"b", "a">>
    /\ PageItems(Pages[2]) = <<"b">>

(***************************************************************************)
(* C4. The events pushed to the sink are START first, before any request,  *)
(* then one PROGRESS(page, items of that page) per fetched page, in page   *)
(* order, each right after that page's response and so before the next     *)
(* request.  Pages of 2, 2 and 1 items with page size 2 give START,        *)
(* PROGRESS(1,2), PROGRESS(2,2), PROGRESS(3,1) (the 500, 500, 237 case at  *)
(* the scale of the model).                                                *)
(***************************************************************************)
ExpectedStart == [t |-> "emit", event |-> "START"]
ExpectedProgress(p, n) == [t |-> "emit", event |-> "PROGRESS", page |-> p, itemsFetched |-> n]

C4_ProgressEvents ==
    (op = "query_items" /\ trace # <<>>) =>
        /\ trace[1] = ExpectedStart
        /\ \A i \in 2..Len(trace) : trace[i] # ExpectedStart
        /\ \A i \in 1..Len(trace) :
              IsPage(trace[i]) =>
                  /\ i < Len(trace)
                  /\ trace[i + 1] = ExpectedProgress(trace[i].page, PageCount(trace[i]))
        /\ \A i \in 2..Len(trace) :
              (IsEmit(trace[i]) /\ trace[i].event = "PROGRESS") => IsPage(trace[i - 1])
        /\ Len(Emits) = 1 + Len(Pages)
        /\ \A i \in 1..Len(Pages) : Emits[i + 1] = ExpectedProgress(i, PageCount(Pages[i]))
        /\ (/\ page_size = PyNum(2) /\ Len(Pages) = 3
            /\ PageCount(Pages[1]) = 2 /\ PageCount(Pages[2]) = 2 /\ PageCount(Pages[3]) = 1)
           => Emits = << ExpectedStart, ExpectedProgress(1, 2), ExpectedProgress(2, 2),
                         ExpectedProgress(3, 1) >>

C4_Witness ==
    /\ op = "query_items" /\ page_size = PyNum(2) /\ Len(Pages) = 3
    /\ PageCount(Pages[1]) = 2 /\ PageCount(Pages[2]) = 2 /\ PageCount(Pages[3]) = 1
    /\ outcome.kind = "return"

(***************************************************************************)
(* C5. A RateLimited failure of the Gateway on any page makes the run fail *)
(* with the rate limit; no result is returned and the failure carries      *)
(* none of the items of the earlier pages.                                 *)
(***************************************************************************)
C5_RateLimitedVoidsRun ==
    (op = "query_items" /\ \E i \in 1..Len(trace) : IsRateLimitedFailure(trace[i])) =>
        /\ pc = "done"
        /\ outcome.kind = "raise"
        /\ outcome.exc.type = "RuntimeError"
        /\ IsPrefix(S_RATE_LIMITED, outcome.exc.msg)
        /\ DOMAIN outcome.exc = {"type", "msg"}
        /\ \A i \in 1..Len(outcome.exc.msg) : outcome.exc.msg[i] \notin Items

\* rate limited on page 2 after a full page 1
C5_Witness ==
    /\ op = "query_items" /\ page_size = PyNum(2)
    /\ Len(Pages) = 1 /\ PageCount(Pages[1]) = 2
    /\ Len(all_items) = 2
    /\ IsRateLimitedFailure(trace[Len(trace)])
    /\ trace[Len(trace)].page = 2
    /\ pc = "done"

(***************************************************************************)
(* C6. A 429 response always makes the client fail with RateLimited, whose *)
(* retry-after is the integer in the Retry-After header when the header is *)
(* present and parseable, and 30 when it is missing or unparseable.        *)
(***************************************************************************)
C6_RateLimitedOn429 ==
    \A i \in 1..Len(trace) :
        (IsResponse(trace[i]) /\ trace[i].http.status = 429) =>
            LET h == trace[i].http.retry_after IN
            /\ trace[i].result.kind = "raise"
            /\ trace[i].result.exc.type = "RateLimited"
            /\ trace[i].result.exc.retry_after =
                  (IF h.present /\ PyInt(h.text).ok THEN PyInt(h.text).value ELSE 30)

(***************************************************************************)
(* C7. query_items, list_projects and get_project_details all surface a    *)
(* RateLimited{n} of the client as the text RATE_LIMITED: immediately      *)
(* followed by n.                                                          *)
(***************************************************************************)
C7_RateLimitedRendering ==
    \A i \in 1..Len(trace) :
        IsRateLimitedFailure(trace[i]) =>
            /\ outcome.kind = "raise"
            /\ outcome.exc.type = "RuntimeError"
            /\ outcome.exc.msg = S_RATE_LIMITED \o IntToStr(trace[i].result.exc.retry_after)

(***************************************************************************)
(* C8. Once a page strictly shorter than the page size has been returned,  *)
(* the run eventually ends (with a result or a failure); and a run ends    *)
(* with a result only after such a page: after full pages alone nothing    *)
(* local stops it.                                                         *)
(***************************************************************************)
ShortPageReturned == op = "query_items" /\ \E i \in 1..Len(Pages) : ShortPage(Pages[i])

C8_TerminatesOnShortPage ==
    /\ ShortPageReturned ~> (pc = "done")
    /\ []((op = "query_items" /\ pc = "done" /\ ~ShortPageReturned) => outcome.kind = "raise")

\* three pages, the first two at least as long as the page size, the last short
C8_Witness ==
    /\ op = "query_items" /\ page_size = PyNum(1)
    /\ Len(Pages) = 3
    /\ PageCount(Pages[1]) = 1 /\ PageCount(Pages[2]) = 2 /\ PageCount(Pages[3]) = 0
    /\ pc = "done" /\ outcome.kind = "return"

(***************************************************************************)
(* C9. A text that contains one of SELECT, UPDATE, DELETE, INSERT, JOIN as *)
(* a substring in any letter case is rejected by validate_cbql with an     *)
(* error naming a forbidden keyword the text contains, whether or not the  *)
(* text has a scope clause or a ';'.                                       *)
(***************************************************************************)
ContainsKeyword(s, kw) == \E i \in 1..Len(s) : IMatchAt(s, i, kw)
KeywordsIn(s) == { FORBIDDEN_KEYWORDS[k] : k \in { j \in 1..Len(FORBIDDEN_KEYWORDS) :
                                                    ContainsKeyword(s, FORBIDDEN_KEYWORDS[j]) } }

C9_ForbiddenKeywordRejected ==
    (op = "validate_cbql" /\ pc = "done" /\ KeywordsIn(vraw) # {}) =>
        /\ vres.kind = "raise"
        /\ vres.exc.type = "ValueError"
        /\ vres.exc.kw \in KeywordsIn(vraw)

\* a keyword in mixed case, in a text that has a scope clause
C9_Witness ==
    /\ op = "validate_cbql" /\ pc = "done"
    /\ vraw = W_tracker \o <<"=">> \o <<"S","e","l","e","c","t">>
    /\ vres.kind = "raise"

(***************************************************************************)
(* C10. A non-empty text with a scope clause, no forbidden keyword and no  *)
(* ';' is accepted, and what validate_cbql returns is the text without its *)
(* leading and trailing whitespace, otherwise unchanged.                   *)
(***************************************************************************)
\* tracker =, tracker IN or project = somewhere in the text
ScopeClauseAnywhere(s) == \E i \in 1..Len(s) : ScopeAlternativesAt(s, i)
\* the same, starting at the start of the text or after a non-word character
ScopeClauseAtWordStart(s) ==
    \E i \in 1..Len(s) : (i = 1 \/ ~IsWordChar(s[i - 1])) /\ ScopeAlternativesAt(s, i)

\* t is s without its leading and trailing whitespace
IsTrimOf(t, s) ==
    \E a \in 0..Len(s) : \E b \in 0..(Len(s) - a) :
        /\ \A i \in 1..a : IsSpace(s[i])
        /\ \A i \in (Len(s) - b + 1)..Len(s) : IsSpace(s[i])
        /\ a + b < Len(s)
        /\ ~IsSpace(s[a + 1]) /\ ~IsSpace(s[Len(s) - b])
        /\ t = SubSeq(s, a + 1, Len(s) - b)

\* the claim as stated: any occurrence of a scope clause counts
C10_ScopeAnywhereAccepted ==
    (/\ op = "validate_cbql" /\ pc = "done"
     /\ vraw # <<>> /\ ScopeClauseAnywhere(vraw)
     /\ KeywordsIn(vraw) = {} /\ ~Contains(vraw, <<";">>)) =>
        /\ vres.kind = "return"
        /\ IsTrimOf(vres.value, vraw)

\* amended: the scope clause starts at a word boundary
C10_ScopeAtWordStartAccepted ==
    (/\ op = "validate_cbql" /\ pc = "done"
     /\ vraw # <<>> /\ ScopeClauseAtWordStart(vraw)
     /\ KeywordsIn(vraw) = {} /\ ~Contains(vraw, <<";">>)) =>
        /\ vres.kind = "return"
        /\ IsTrimOf(vres.value, vraw)

\* a valid query with whitespace on both sides and inside
C10_Witness ==
    /\ op = "validate_cbql" /\ pc = "done"
    /\ vraw = <<" ", "\t">> \o W_tracker \o <<" ">> \o <<"=">> \o <<" ", "\t">>
    /\ vres = Returned(W_tracker \o <<" ">> \o <<"=">>)

(***************************************************************************)
(* C11. After a failure of the client on page p (rate limit, error status, *)
(* undecodable body) the run sends no further request: the failure is the  *)
(* last thing the run did, no page is requested twice, and the call ends   *)
(* by raising that failure, not by returning a result.                     *)
(***************************************************************************)
C11_NoRequestAfterFailure ==
    op = "query_items" =>
        /\ \A i \in 1..Len(Requests) : \A j \in 1..Len(Requests) :
              Requests[i].page = Requests[j].page => i = j
        /\ \A i \in 1..Len(trace) :
              IsGatewayFailure(trace[i]) =>
                  /\ i = Len(trace)
                  /\ pc = "done"
                  /\ outcome.kind = "raise"
                  /\ IF trace[i].result.exc.type = "RateLimited"
                     THEN /\ outcome.exc.type = "RuntimeError"
                          /\ IsPrefix(S_RATE_LIMITED, outcome.exc.msg)
                     ELSE outcome = trace[i].result

\* an error status on page 2, after a full page 1
C11_Witness ==
    /\ op = "query_items" /\ page_size = PyNum(2)
    /\ Len(Pages) = 1 /\ PageCount(Pages[1]) = 2
    /\ IsGatewayFailure(trace[Len(trace)])
    /\ trace[Len(trace)].result.exc.type = "HTTPStatusError"
    /\ trace[Len(trace)].page = 2
    /\ outcome = trace[Len(trace)].result

(***************************************************************************)
(* C12. A failure of the sink while it accepts START or PROGRESS does not  *)
(* abort the run: the call never ends because a ctx.stream call raised,    *)
(* so requests and result are those of a run whose pushes all succeed.     *)
(***************************************************************************)
C12_SinkFailureDoesNotAbort ==
    op = "query_items" =>
        ~(pc = "done" /\ outcome.kind = "raise" /\ outcome.exc.type = "StreamError")

(***************************************************************************)
(* C13. Every request of a run carries a page number >= 1 and a page size  *)
(* that is an integer > 0, the same in every request of the run, whatever  *)
(* page_size argument the tool was called with.                            *)
(***************************************************************************)
C13_PageRequestWellFormed ==
    op = "query_items" =>
        \A i \in 1..Len(Requests) :
            /\ Requests[i].page >= 1
            /\ Requests[i].pageSize.py = "int"
            /\ Requests[i].pageSize.v > 0
            /\ Requests[i].pageSize = Requests[1].pageSize

(***************************************************************************)
(* C14. validate_cbql applies its rules in the order empty, forbidden      *)
(* keyword, missing scope, multiple statements, and fails with the first   *)
(* rule the text breaks: empty and whitespace-only text with "empty"; text *)
(* with no forbidden keyword, no scope clause and a ';' with "missing      *)
(* scope"; text with a scope clause, no forbidden keyword and a ';' (such  *)
(* as project = 'X'; project = 'Y') with "multiple statements".            *)
(***************************************************************************)
AllSpace(s) == \A i \in 1..Len(s) : IsSpace(s[i])

\* the rule an outcome of validate_cbql reports
RuleOf(res) ==
    IF res.kind # "raise" THEN "none"
    ELSE IF res.exc.kw # <<>> THEN "forbidden keyword"
    ELSE IF res.exc.msg = "CBQL cannot be empty" THEN "empty"
    ELSE IF res.exc.msg = "Invalid CBQL: tracker or project scope is required."
    THEN "missing scope"
    ELSE IF res.exc.msg = "Multiple CBQL statements are not allowed."
    THEN "multiple statements"
    ELSE "other"

TwoStatementsExample ==
    W_project \o <<" ", "=", " ", "'", "X", "'", ";", " ">>
        \o W_project \o <<" ", "=", " ", "'", "Y", "'">>

\* the claim as stated: any occurrence of a scope clause counts
C14_RuleOrderScopeAnywhere ==
    (op = "validate_cbql" /\ pc = "done") =>
        /\ AllSpace(vraw) => RuleOf(vres) = "empty"
        /\ (~AllSpace(vraw) /\ KeywordsIn(vraw) # {}) => RuleOf(vres) = "forbidden keyword"
        /\ (~AllSpace(vraw) /\ KeywordsIn(vraw) = {} /\ ~ScopeClauseAnywhere(vraw))
              => RuleOf(vres) = "missing scope"
        /\ (/\ ~AllSpace(vraw) /\ KeywordsIn(vraw) = {} /\ ScopeClauseAnywhere(vraw)
            /\ Contains(vraw, <<";">>))
              => RuleOf(vres) = "multiple statements"
        /\ vraw = TwoStatementsExample => RuleOf(vres) = "multiple statements"

\* amended: a scope clause is one that starts at a word boundary
C14_RuleOrderScopeAtWordStart ==
    (op = "validate_cbql" /\ pc = "done") =>
        /\ AllSpace(vraw) => RuleOf(vres) = "empty"
        /\ (~AllSpace(vraw) /\ KeywordsIn(vraw) # {}) => RuleOf(vres) = "forbidden keyword"
        /\ (~AllSpace(vraw) /\ KeywordsIn(vraw) = {} /\ ~ScopeClauseAtWordStart(vraw))
              => RuleOf(vres) = "missing scope"
        /\ (/\ ~AllSpace(vraw) /\ KeywordsIn(vraw) = {} /\ ScopeClauseAtWordStart(vraw)
            /\ Contains(vraw, <<";">>))
              => RuleOf(vres) = "multiple statements"
        /\ vraw = TwoStatementsExample => RuleOf(vres) = "multiple statements"

\* project = 'X'; project = 'Y' has been validated
C14_Witness ==
    /\ op = "validate_cbql" /\ pc = "done"
    /\ vraw = TwoStatementsExample
    /\ RuleOf(vres) = "multiple statements"

====
